---- MODULE Spec2Model ----
(***************************************************************************)
(* Authorization core of the reseller admin backend: the account           *)
(* directory (users_admin), the in-memory session store, advertisements    *)
(* and settlement logs, with the permission filters and ownership checks   *)
(* of api/routers/accounts.py and api/routers/advertisements.py.           *)
(*                                                                         *)
(* A request handler is an operator from (caller identity, wall-clock      *)
(* reading, request body, stored tables) to a record holding the HTTP      *)
(* status and the tables as committed; the action of the handler installs  *)
(* the committed tables.  The wall clock is read once per request          *)
(* (datetime.now()), so it is an input of each action.                     *)
(*                                                                         *)
(* A users_admin row keeps the columns the handlers branch on or that the  *)
(* claims speak of: username, role, parent_user_id, is_active.  The        *)
(* free-text columns (password_hash, affiliation, memo) and the timestamps *)
(* are never read by a guard and are left out of the row.                  *)
(***************************************************************************)
EXTENDS Integers, Sequences, FiniteSets, TLC

\* ------------------------------------------------------------------ bounds
\* rows of users_admin, live sessions, advertisements ever created, ids in one
\* batch request, and the calendar (dates are day numbers 1..MaxDate)
MaxUsers == 3
MaxSessions == 1
MaxAds == 1
MaxBatch == 2
MaxDate == 2

\* --------------------------------------------------------------- constants
\* Python None / SQL NULL for an integer column; auto-increment ids start at
\* 1, and 0 is falsy like None in "if final_parent_user_id".
None == 0

\* time of day in seconds since midnight: time(16, 30)
cutoff_time == 59400

\* the allow-list written inline in accounts.py and advertisements.py
ROUTER_SUPERUSERS == {"admin", "monter"}
\* utils/time_check.py
SUPERUSER_USERNAMES == {"admin", "monteur"}
\* api/routers/auth.py: logins that bypass users_admin
HARDCODED_ACCOUNTS ==
    [admin   |-> [user_id |-> 6, role |-> "admin"],
     monteur |-> [user_id |-> 7, role |-> "admin"]]

valid_roles == {"total", "agency", "advertiser"}

\* --------------------------------------------------------------- the state
VARIABLES
    users,        \* users_admin: sequence of rows, user_id = index
    sessions,     \* utils/session.py sessions: the identities of live tokens
    ads,          \* advertisements_admin: function ad_id -> row
    ad_seq,       \* auto-increment counter of advertisements_admin
    settlements,  \* settlement_admin: sequence of rows, settlement_id = index
    session_store, \* utils/session.py sessions: the dict token -> session record
    clock,        \* datetime.now() as the session functions read it, in days
    calls         \* per thread: the session function it is executing, with its locals

vars == <<users, sessions, ads, ad_seq, settlements, session_store, clock, calls>>

\* the state of utils/session.py at the granularity of its statements; the
\* request handlers read it through the identities of the live tokens (sessions)
store_vars == <<session_store, clock, calls>>

\* threads of the server that may be inside a session function
MaxThreads == 2
Threads == 1..MaxThreads

\* a thread that is in no session function
Idle == [op |-> "idle"]

\* the module as imported: sessions = {}
StoreInit ==
    /\ session_store = <<>>
    /\ clock = 0
    /\ calls = [t \in Threads |-> Idle]

\* ------------------------------------------------------- directory lookups
\* db.query(UsersAdmin).filter(UsersAdmin.username == name).first()
UserIdByUsername(U, name) ==
    IF \E i \in DOMAIN U : U[i].username = name
    THEN CHOOSE i \in DOMAIN U : U[i].username = name
    ELSE None

\* db.query(UsersAdmin).filter(UsersAdmin.user_id == id).first() is not None
UserExists(U, id) == id \in DOMAIN U

\* db.query(UsersAdmin.user_id).filter(parent_user_id == id, role == "agency")
direct_agencies(U, id) ==
    {i \in DOMAIN U : U[i].parent_user_id = id /\ U[i].role = "agency"}

\* ---------------------------------------------------- account list filter
\* the or_() of the total branch, as a predicate on one users_admin row
TotalRowCond(U, me, i) ==
    \/ i = me
    \/ U[i].parent_user_id = me
    \/ (direct_agencies(U, me) # {} /\ U[i].parent_user_id \in direct_agencies(U, me))

\* mutant: the role test of the agency branch dropped
AgencyRowCondNoRole(U, me, i) ==
    \/ i = me
    \/ U[i].parent_user_id = me

\* the or_() of the agency branch
AgencyRowCond(U, me, i) ==
    \/ i = me
    \/ (U[i].parent_user_id = me /\ U[i].role = "advertiser")

\* _apply_account_permission_filter: status 200 and the admitted user_ids, or
\* the HTTP error raised; filtered = FALSE is "return query" (no filter)
apply_account_permission_filter(cu, U) ==
    LET me == UserIdByUsername(U, cu.username) IN
    IF cu.username \in ROUTER_SUPERUSERS
    THEN [status |-> 200, filtered |-> FALSE, ids |-> DOMAIN U]
    ELSE IF me = None
    THEN [status |-> 404, filtered |-> TRUE, ids |-> {}]
    ELSE IF U[me].role # cu.role
    THEN [status |-> 403, filtered |-> TRUE, ids |-> {}]
    ELSE IF U[me].role = "total"
    THEN [status |-> 200, filtered |-> TRUE,
          ids |-> {i \in DOMAIN U : TotalRowCond(U, me, i)}]
    ELSE IF U[me].role = "agency"
    THEN [status |-> 200, filtered |-> TRUE,
          ids |-> {i \in DOMAIN U : AgencyRowCond(U, me, i)}]
    ELSE IF U[me].role = "advertiser"
    THEN [status |-> 200, filtered |-> TRUE, ids |-> {i \in DOMAIN U : i = me}]
    ELSE [status |-> 403, filtered |-> TRUE, ids |-> {}]

\* ---------------------------------------------------- account access check
\* the total branch of _check_account_access_permission
TotalAccessCond(U, me, t) ==
    \/ t = me
    \/ U[t].parent_user_id = me
    \/ U[t].parent_user_id \in direct_agencies(U, me)

\* mutant: any direct child of the agency passes, whatever its role
AgencyAccessCondNoRole(U, me, t) ==
    \/ t = me
    \/ U[t].parent_user_id = me

\* the agency branch of _check_account_access_permission
AgencyAccessCond(U, me, t) ==
    \/ t = me
    \/ (U[t].parent_user_id = me /\ U[t].role = "advertiser")

\* mutant: the advertiser branch denies everything
AdvertiserAccessCondDeny(U, me, t) == FALSE

\* the advertiser branch of _check_account_access_permission
AdvertiserAccessCond(U, me, t) == t = me

\* _check_account_access_permission(account, current_user, db), account = row t
check_account_access_permission(t, cu, U) ==
    LET me == UserIdByUsername(U, cu.username) IN
    IF cu.username \in ROUTER_SUPERUSERS THEN TRUE
    ELSE IF me = None THEN FALSE
    ELSE IF U[me].role # cu.role THEN FALSE
    ELSE IF U[me].role = "total" THEN TotalAccessCond(U, me, t)
    ELSE IF U[me].role = "agency" THEN AgencyAccessCond(U, me, t)
    ELSE IF U[me].role = "advertiser" THEN AdvertiserAccessCond(U, me, t)
    ELSE FALSE

\* ------------------------------------------------ advertisement list filter
\* The query is advertisements_admin JOIN users_admin ON ad.user_id =
\* users_admin.user_id; owner is ad.user_id, the conditions read the session's
\* user_id and role, not the directory's.
AdTotalRowCond(U, cu, owner) ==
    \/ owner = cu.user_id
    \/ U[owner].parent_user_id = cu.user_id
    \/ (direct_agencies(U, cu.user_id) # {}
        /\ U[owner].parent_user_id \in direct_agencies(U, cu.user_id))

AdAgencyRowCond(U, cu, owner) ==
    \/ owner = cu.user_id
    \/ (U[owner].parent_user_id = cu.user_id /\ U[owner].role = "advertiser")

\* _apply_advertisement_permission_filter: status and the admitted owner ids
\* (an advertisement is admitted iff the join finds its owner and the owner id
\* is in owners)
apply_advertisement_permission_filter(cu, U) ==
    IF cu.username \in ROUTER_SUPERUSERS
    THEN [status |-> 200, filtered |-> FALSE, owners |-> DOMAIN U]
    ELSE IF cu.role = "total"
    THEN [status |-> 200, filtered |-> TRUE,
          owners |-> {o \in DOMAIN U : AdTotalRowCond(U, cu, o)}]
    ELSE IF cu.role = "agency"
    THEN [status |-> 200, filtered |-> TRUE,
          owners |-> {o \in DOMAIN U : AdAgencyRowCond(U, cu, o)}]
    ELSE IF cu.role = "advertiser"
    THEN [status |-> 200, filtered |-> TRUE,
          owners |-> {o \in DOMAIN U : o = cu.user_id}]
    ELSE [status |-> 403, filtered |-> TRUE, owners |-> {}]

\* the advertisements a list query returns under the filter
AdmittedAds(cu, U, A) ==
    {a \in DOMAIN A : A[a].user_id \in apply_advertisement_permission_filter(cu, U).owners}

\* -------------------------------------------- advertisement ownership check
\* the total branch of _check_advertisement_ownership
AdTotalOwnerCond(U, cu, owner) ==
    \/ (U[owner].parent_user_id = cu.user_id /\ U[owner].role = "agency")
    \/ (U[owner].parent_user_id \in direct_agencies(U, cu.user_id)
        /\ U[owner].role = "advertiser")

\* the agency branch of _check_advertisement_ownership
AdAgencyOwnerCond(U, cu, owner) ==
    U[owner].parent_user_id = cu.user_id /\ U[owner].role = "advertiser"

\* _check_advertisement_ownership(ad, current_user, db), owner = ad.user_id
check_advertisement_ownership(owner, cu, U) ==
    IF cu.username \in ROUTER_SUPERUSERS THEN TRUE
    ELSE IF ~UserExists(U, owner) THEN FALSE
    ELSE IF owner = cu.user_id THEN TRUE
    ELSE IF cu.role = "total" THEN AdTotalOwnerCond(U, cu, owner)
    ELSE IF cu.role = "agency" THEN AdAgencyOwnerCond(U, cu, owner)
    ELSE IF cu.role = "advertiser" THEN owner = cu.user_id
    ELSE FALSE

\* ------------------------------------------------------------ the time gate
\* check_edit_time_allowed(username, user_role) with datetime.now().time() = now:
\* TRUE when it returns, FALSE when it raises 403. A missing argument is "".
check_edit_time_allowed(username, user_role, now) ==
    IF username # "" /\ username \in SUPERUSER_USERNAMES THEN TRUE
    ELSE IF user_role = "admin" THEN TRUE
    ELSE ~(now >= cutoff_time)

\* --------------------------------------------------------------- sessions
\* a request that carries no token, or a token get_session does not know
Anonymous == [user_id |-> None, username |-> "", role |-> ""]

\* get_current_user: the identity of a live session, else 401
get_current_user(cu, S) == cu \in S

\* login(request): the status and the identity put in the new session.
\* pw_ok is the outcome of the password comparison.
login(username, pw_ok, U) ==
    LET uid == UserIdByUsername(U, username) IN
    IF username = "" THEN [status |-> 400, identity |-> Anonymous]
    ELSE IF username \in DOMAIN HARDCODED_ACCOUNTS
    THEN IF ~pw_ok THEN [status |-> 401, identity |-> Anonymous]
         ELSE [status |-> 200,
               identity |-> [user_id |-> HARDCODED_ACCOUNTS[username].user_id,
                             username |-> username,
                             role |-> HARDCODED_ACCOUNTS[username].role]]
    ELSE IF uid = None THEN [status |-> 401, identity |-> Anonymous]
    ELSE IF ~U[uid].is_active THEN [status |-> 403, identity |-> Anonymous]
    ELSE IF ~pw_ok THEN [status |-> 401, identity |-> Anonymous]
    ELSE [status |-> 200,
          identity |-> [user_id |-> uid, username |-> username, role |-> U[uid].role]]

\* ------------------------------------------------------------ create_account
\* mutant: the supplied parent is kept whoever the creator is
assign_parent_supplied(cu, actual_user_id, actual_role, req) == req.parent_user_id

\* the parent auto-assignment of create_account (final_parent_user_id)
assign_parent(cu, actual_user_id, actual_role, req) ==
    IF cu.username \in ROUTER_SUPERUSERS THEN req.parent_user_id
    ELSE IF req.role = "total" THEN None
    ELSE IF req.role = "agency"
    THEN IF actual_role = "total" THEN actual_user_id
         ELSE IF req.parent_user_id = None THEN actual_user_id
         ELSE req.parent_user_id
    ELSE IF req.role = "advertiser"
    THEN IF actual_role = "agency" THEN actual_user_id
         ELSE IF req.parent_user_id = None THEN actual_user_id
         ELSE req.parent_user_id
    ELSE req.parent_user_id

\* mutant: a total with a parent is not rejected
validate_parent_total_unchecked(role, final_parent_user_id, U) ==
    IF role \in {"agency", "advertiser"} /\ final_parent_user_id # None
    THEN IF ~UserExists(U, final_parent_user_id) THEN "parent_not_found"
         ELSE IF role = "agency" /\ U[final_parent_user_id].role # "total"
         THEN "agency_parent_not_total"
         ELSE IF role = "advertiser" /\ U[final_parent_user_id].role # "agency"
         THEN "advertiser_parent_not_agency"
         ELSE ""
    ELSE ""

\* mutant: the assigned parent is stored without validation
validate_parent_skipped(role, final_parent_user_id, U) == ""

\* the parent validation of create_account: "" when it passes, else the error
validate_parent(role, final_parent_user_id, U) ==
    IF role = "agency" /\ final_parent_user_id # None
    THEN IF ~UserExists(U, final_parent_user_id) THEN "parent_not_found"
         ELSE IF U[final_parent_user_id].role # "total" THEN "agency_parent_not_total"
         ELSE ""
    ELSE IF role = "advertiser" /\ final_parent_user_id # None
    THEN IF ~UserExists(U, final_parent_user_id) THEN "parent_not_found"
         ELSE IF U[final_parent_user_id].role # "agency" THEN "advertiser_parent_not_agency"
         ELSE ""
    ELSE IF role = "total" /\ final_parent_user_id # None THEN "total_has_parent"
    ELSE ""

AccountResp(status, error, U) == [status |-> status, error |-> error, users |-> U]

\* create_account(account, db, current_user): the response and users_admin
\* as committed
create_account(cu, now, req, U, S) ==
    LET actual == UserIdByUsername(U, cu.username) IN
    IF ~get_current_user(cu, S) THEN AccountResp(401, "no_session", U)
    ELSE IF ~check_edit_time_allowed(cu.username, cu.role, now)
    THEN AccountResp(403, "time_gate", U)
    ELSE IF UserIdByUsername(U, req.username) # None
    THEN AccountResp(400, "duplicate_username", U)
    ELSE IF req.role \notin valid_roles THEN AccountResp(400, "invalid_role", U)
    ELSE IF actual = None THEN AccountResp(404, "caller_not_found", U)
    ELSE IF U[actual].role # cu.role THEN AccountResp(403, "stale_identity", U)
    ELSE LET fp == assign_parent(cu, actual, U[actual].role, req)
             bad == validate_parent(req.role, fp, U)
         IN IF bad # "" THEN AccountResp(400, bad, U)
            ELSE AccountResp(200, "",
                     Append(U, [username |-> req.username, role |-> req.role,
                                parent_user_id |-> fp, is_active |-> TRUE]))

\* ------------------------------------------------------------ update_account
\* update_account(user_id, account, db, current_user); req.role = "" and
\* req.set_active = FALSE are the fields left out of the body
update_account(cu, now, user_id, req, U, S) ==
    IF ~get_current_user(cu, S) THEN AccountResp(401, "no_session", U)
    ELSE IF ~check_edit_time_allowed(cu.username, cu.role, now)
    THEN AccountResp(403, "time_gate", U)
    ELSE IF ~UserExists(U, user_id) THEN AccountResp(404, "account_not_found", U)
    ELSE IF req.role # "" /\ req.role \notin valid_roles
    THEN AccountResp(400, "invalid_role", U)
    ELSE AccountResp(200, "",
             [U EXCEPT ![user_id] =
                 [@ EXCEPT !.role = IF req.role # "" THEN req.role ELSE @,
                           !.is_active = IF req.set_active THEN req.is_active ELSE @]])

\* ------------------------------------------------------------ delete_accounts
\* mutant: a listed last row is removed from the table
delete_accounts_hard(cu, now, user_ids, U, S) ==
    IF ~get_current_user(cu, S) THEN AccountResp(401, "no_session", U)
    ELSE IF ~check_edit_time_allowed(cu.username, cu.role, now)
    THEN AccountResp(403, "time_gate", U)
    ELSE IF Len(U) \in user_ids THEN AccountResp(200, "", SubSeq(U, 1, Len(U) - 1))
    ELSE AccountResp(200, "", U)

\* delete_accounts(delete_request, db, current_user): soft delete of every
\* listed user_id that exists
delete_accounts(cu, now, user_ids, U, S) ==
    IF ~get_current_user(cu, S) THEN AccountResp(401, "no_session", U)
    ELSE IF ~check_edit_time_allowed(cu.username, cu.role, now)
    THEN AccountResp(403, "time_gate", U)
    ELSE AccountResp(200, "",
             [i \in DOMAIN U |->
                 IF i \in user_ids THEN [U[i] EXCEPT !.is_active = FALSE] ELSE U[i]])

\* ------------------------------------------------------- create_advertisement
AdResp(status, error, A, seq, ST) ==
    [status |-> status, error |-> error, ads |-> A, ad_seq |-> seq, settlements |-> ST]

\* mutant: the advertisement is committed without its order settlement
create_advertisement_unlogged(cu, now, req, U, A, seq, ST, S) ==
    IF ~get_current_user(cu, S) THEN AdResp(401, "no_session", A, seq, ST)
    ELSE IF ~check_edit_time_allowed(cu.username, cu.role, now)
    THEN AdResp(403, "time_gate", A, seq, ST)
    ELSE IF cu.username \notin ROUTER_SUPERUSERS /\ req.user_id # cu.user_id
    THEN AdResp(403, "not_own_user_id", A, seq, ST)
    ELSE IF ~UserExists(U, req.user_id) THEN AdResp(404, "owner_not_found", A, seq, ST)
    ELSE IF req.start_date >= req.end_date THEN AdResp(400, "bad_dates", A, seq, ST)
    ELSE AdResp(200, "",
             ((seq + 1) :> [user_id |-> req.user_id, status |-> "pending",
                            start_date |-> req.start_date, end_date |-> req.end_date,
                            work_days |-> (req.end_date - req.start_date) + 1]) @@ A,
             seq + 1, ST)

\* create_advertisement(advertisement, db, current_user): the advertisement
\* (status pending) and its order settlement are committed together
create_advertisement(cu, now, req, U, A, seq, ST, S) ==
    IF ~get_current_user(cu, S) THEN AdResp(401, "no_session", A, seq, ST)
    ELSE IF ~check_edit_time_allowed(cu.username, cu.role, now)
    THEN AdResp(403, "time_gate", A, seq, ST)
    ELSE IF cu.username \notin ROUTER_SUPERUSERS /\ req.user_id # cu.user_id
    THEN AdResp(403, "not_own_user_id", A, seq, ST)
    ELSE IF ~UserExists(U, req.user_id) THEN AdResp(404, "owner_not_found", A, seq, ST)
    ELSE IF req.start_date >= req.end_date THEN AdResp(400, "bad_dates", A, seq, ST)
    ELSE LET work_days == (req.end_date - req.start_date) + 1
             ad_id == seq + 1
             agency_user_id == IF U[req.user_id].role = "advertiser"
                               THEN U[req.user_id].parent_user_id ELSE None
         IN AdResp(200, "",
                (ad_id :> [user_id |-> req.user_id, status |-> "pending",
                           start_date |-> req.start_date, end_date |-> req.end_date,
                           work_days |-> work_days]) @@ A,
                ad_id,
                Append(ST, [settlement_type |-> "order",
                            agency_user_id |-> agency_user_id,
                            advertiser_user_id |-> req.user_id,
                            ad_id |-> ad_id,
                            period_start |-> req.start_date,
                            period_end |-> req.end_date,
                            total_days |-> work_days]))

\* mutant: every listed advertisement is deleted, the ownership check left out
delete_advertisements_unchecked(cu, now, ad_ids, U, A, seq, ST, S) ==
    IF ~get_current_user(cu, S) THEN AdResp(401, "no_session", A, seq, ST)
    ELSE IF ~check_edit_time_allowed(cu.username, cu.role, now)
    THEN AdResp(403, "time_gate", A, seq, ST)
    ELSE AdResp(200, "", [a \in DOMAIN A \ ad_ids |-> A[a]], seq, ST)

\* mutant: the settlements of a deleted advertisement are deleted with it
delete_advertisements_cascade(cu, now, ad_ids, U, A, seq, ST, S) ==
    IF ~get_current_user(cu, S) THEN AdResp(401, "no_session", A, seq, ST)
    ELSE IF ~check_edit_time_allowed(cu.username, cu.role, now)
    THEN AdResp(403, "time_gate", A, seq, ST)
    ELSE LET gone == {a \in ad_ids \cap DOMAIN A :
                          check_advertisement_ownership(A[a].user_id, cu, U)}
             kept(s) == s.ad_id \notin gone
         IN AdResp(200, "", [a \in DOMAIN A \ gone |-> A[a]], seq, SelectSeq(ST, kept))

\* ------------------------------------------------------ delete_advertisements
\* delete_advertisements(delete_request, db, current_user): hard delete of the
\* listed advertisements the ownership check allows; the ORM relationship
\* AdvertisementsAdmin.settlements (no delete cascade) sets ad_id of the
\* settlements of a deleted advertisement to NULL
delete_advertisements(cu, now, ad_ids, U, A, seq, ST, S) ==
    IF ~get_current_user(cu, S) THEN AdResp(401, "no_session", A, seq, ST)
    ELSE IF ~check_edit_time_allowed(cu.username, cu.role, now)
    THEN AdResp(403, "time_gate", A, seq, ST)
    ELSE LET gone == {a \in ad_ids \cap DOMAIN A :
                          check_advertisement_ownership(A[a].user_id, cu, U)}
         IN AdResp(200, "",
                [a \in DOMAIN A \ gone |-> A[a]],
                seq,
                [k \in DOMAIN ST |->
                    IF ST[k].ad_id \in gone THEN [ST[k] EXCEPT !.ad_id = None] ELSE ST[k]])

\* ----------------------------------------------------------- settlement reads
\* get_settlements(..., db) with no query filter: the settlement_ids returned.
\* The route declares no current_user dependency.
get_settlements(ST) == DOMAIN ST

\* get_settlement(settlement_id, db)
get_settlement(settlement_id, ST) ==
    IF settlement_id \in DOMAIN ST THEN 200 ELSE 404

\* ------------------------------------------------------------ request inputs
\* datetime.now().time() at the request: 16:29:59 and 16:30:00
Times == {cutoff_time - 1, cutoff_time}

SpecialNames == {"admin", "monteur", "monter"}

\* the k-th ordinary login name; ordinary names are interchangeable, so the
\* k-th row of users_admin takes the k-th of them
GenericName(k) == "u" \o ToString(k)

\* the username of a create request: one already taken, the next ordinary
\* name, or the name the routers' allow-list holds and no login is hardcoded for
UsernameInputs(U) ==
    {"monter", GenericName(Len(U) + 1)} \cup {U[i].username : i \in DOMAIN U}

LoginNames == SpecialNames \cup {GenericName(k) : k \in 1..MaxUsers} \cup {""}

UserIdInputs == 0..MaxUsers

\* the id lists of a batch request (their order does not change the outcome)
UserIdLists == {x \in SUBSET UserIdInputs : Cardinality(x) <= MaxBatch}

AdIdLists == {x \in SUBSET (0..MaxAds) : Cardinality(x) <= MaxBatch}

AccountCreateInputs(U) ==
    [username : UsernameInputs(U),
     role : valid_roles \cup {"admin"},
     parent_user_id : UserIdInputs]

\* AccountUpdate bodies: role ("" when left out) and is_active (set_active =
\* FALSE when left out)
AccountUpdateInputs ==
    {b \in [role : valid_roles \cup {"", "admin"}, set_active : BOOLEAN, is_active : BOOLEAN] :
        ~b.set_active => ~b.is_active}

Dates == 1..MaxDate

AdvertisementCreateInputs ==
    [user_id : UserIdInputs \cup {HARDCODED_ACCOUNTS[n].user_id : n \in DOMAIN HARDCODED_ACCOUNTS},
     start_date : Dates, end_date : Dates]

Callers == sessions \cup {Anonymous}

\* ------------------------------------------------------------------- actions
\* users_admin as provisioned before the service starts: the row of the admin
\* login, or a first distributor
SeedDirectories ==
    { <<[username |-> "admin", role |-> "admin", parent_user_id |-> None, is_active |-> TRUE]>>,
      <<[username |-> "u1", role |-> "total", parent_user_id |-> None, is_active |-> TRUE]>> }

Init ==
    /\ users \in SeedDirectories
    /\ sessions = {}
    /\ ads = <<>>
    /\ ad_seq = 0
    /\ settlements = <<>>
    /\ StoreInit

Login ==
    \E username \in LoginNames, pw_ok \in BOOLEAN :
        LET r == login(username, pw_ok, users) IN
        /\ sessions' = IF r.status = 200 THEN sessions \cup {r.identity} ELSE sessions
        /\ Cardinality(sessions') <= MaxSessions
        /\ UNCHANGED <<users, ads, ad_seq, settlements, store_vars>>

\* logout -> delete_session(token)
Logout ==
    \E cu \in sessions :
        /\ sessions' = sessions \ {cu}
        /\ UNCHANGED <<users, ads, ad_seq, settlements, store_vars>>

CreateAccount ==
    \E cu \in Callers, now \in Times, req \in AccountCreateInputs(users) :
        /\ Len(users) < MaxUsers
        /\ users' = create_account(cu, now, req, users, sessions).users
        /\ UNCHANGED <<sessions, ads, ad_seq, settlements, store_vars>>

UpdateAccount ==
    \E cu \in Callers, now \in Times, user_id \in UserIdInputs, req \in AccountUpdateInputs :
        /\ users' = update_account(cu, now, user_id, req, users, sessions).users
        /\ UNCHANGED <<sessions, ads, ad_seq, settlements, store_vars>>

DeleteAccounts ==
    \E cu \in Callers, now \in Times, user_ids \in UserIdLists :
        /\ users' = delete_accounts(cu, now, user_ids, users, sessions).users
        /\ UNCHANGED <<sessions, ads, ad_seq, settlements, store_vars>>

CreateAdvertisement ==
    \E cu \in Callers, now \in Times, req \in AdvertisementCreateInputs :
        LET r == create_advertisement(cu, now, req, users, ads, ad_seq, settlements, sessions) IN
        /\ ad_seq < MaxAds
        /\ ads' = r.ads
        /\ ad_seq' = r.ad_seq
        /\ settlements' = r.settlements
        /\ UNCHANGED <<users, sessions, store_vars>>

DeleteAdvertisements ==
    \E cu \in Callers, now \in Times, ad_ids \in AdIdLists :
        LET r == delete_advertisements(cu, now, ad_ids, users, ads, ad_seq, settlements, sessions) IN
        /\ ads' = r.ads
        /\ ad_seq' = r.ad_seq
        /\ settlements' = r.settlements
        /\ UNCHANGED <<users, sessions, store_vars>>

\* the account directory and the sessions: every account handler, any caller
Next ==
    \/ Login
    \/ Logout
    \/ CreateAccount
    \/ UpdateAccount
    \/ DeleteAccounts

Spec == Init /\ [][Next]_vars

\* advertisements and their settlement log over the directories that account
\* creation builds
NextAds ==
    \/ Login
    \/ Logout
    \/ CreateAccount
    \/ CreateAdvertisement
    \/ DeleteAdvertisements

SpecAds == Init /\ [][NextAds]_vars

\* ============================================ advertisement and settlement edits
\* rows of settlement_admin written through POST /settlements, and the last day
\* an extension may reach
MaxSettlements == 2
MaxExtendedDate == 3

valid_statuses == {"normal", "error", "pending", "ending", "ended"}
valid_types == {"order", "extend", "refund"}

\* mutant: update_advertisement with the test of the status ended left out
update_advertisement_any_status(cu, now, ad_id, req, U, A, seq, ST, S) ==
    IF ~get_current_user(cu, S) THEN AdResp(401, "no_session", A, seq, ST)
    ELSE IF ~check_edit_time_allowed(cu.username, cu.role, now)
    THEN AdResp(403, "time_gate", A, seq, ST)
    ELSE IF ad_id \notin DOMAIN A THEN AdResp(404, "ad_not_found", A, seq, ST)
    ELSE IF ~check_advertisement_ownership(A[ad_id].user_id, cu, U)
    THEN AdResp(403, "not_owner", A, seq, ST)
    ELSE IF req.status # "" /\ req.status \notin valid_statuses
    THEN AdResp(400, "invalid_status", A, seq, ST)
    ELSE AdResp(200, "",
             [A EXCEPT ![ad_id] = [@ EXCEPT !.status = IF req.status # "" THEN req.status ELSE @]],
             seq, ST)

\* ------------------------------------------------------- update_advertisement
\* update_advertisement(ad_id, advertisement, db, current_user); in the body
\* status = "" and start_date / end_date = None are fields left out, and
\* set_work_days = FALSE is work_days left out.  A 4xx raised after a field was
\* assigned leaves the row as stored: nothing is committed.
update_advertisement(cu, now, ad_id, req, U, A, seq, ST, S) ==
    IF ~get_current_user(cu, S) THEN AdResp(401, "no_session", A, seq, ST)
    ELSE IF ~check_edit_time_allowed(cu.username, cu.role, now)
    THEN AdResp(403, "time_gate", A, seq, ST)
    ELSE IF ad_id \notin DOMAIN A THEN AdResp(404, "ad_not_found", A, seq, ST)
    ELSE IF ~check_advertisement_ownership(A[ad_id].user_id, cu, U)
    THEN AdResp(403, "not_owner", A, seq, ST)
    ELSE IF A[ad_id].status = "ended" THEN AdResp(400, "ended", A, seq, ST)
    ELSE IF req.status # "" /\ req.status \notin valid_statuses
    THEN AdResp(400, "invalid_status", A, seq, ST)
    ELSE LET start_date == IF req.start_date # None THEN req.start_date ELSE A[ad_id].start_date
             end_date == IF req.end_date # None THEN req.end_date ELSE A[ad_id].end_date
             dated == req.start_date # None \/ req.end_date # None
         IN IF dated /\ start_date >= end_date THEN AdResp(400, "bad_dates", A, seq, ST)
            ELSE AdResp(200, "",
                     [A EXCEPT ![ad_id] =
                         [@ EXCEPT !.status = IF req.status # "" THEN req.status ELSE @,
                                   !.start_date = IF dated THEN start_date ELSE @,
                                   !.end_date = IF dated THEN end_date ELSE @,
                                   !.work_days = IF dated THEN (end_date - start_date) + 1
                                                 ELSE IF req.set_work_days THEN req.work_days
                                                 ELSE @]],
                     seq, ST)

\* ------------------------------------------------------ extend_advertisements
\* the loop body of extend_advertisements over the listed ids in ascending
\* order; the ownership test is read at the indentation of the statements
\* around it.  ad.end_date is a date of a NOT NULL column, so "if ad.end_date"
\* holds.
RECURSIVE extend_each(_, _, _, _, _, _)
extend_each(todo, extend_days, cu, U, A, ST) ==
    IF todo = {} THEN [ads |-> A, settlements |-> ST]
    ELSE LET ad_id == CHOOSE x \in todo : \A y \in todo : x <= y
             rest == todo \ {ad_id}
         IN IF \/ ad_id \notin DOMAIN A
               \/ ~check_advertisement_ownership(A[ad_id].user_id, cu, U)
               \/ A[ad_id].status = "ended"
               \/ ~UserExists(U, A[ad_id].user_id)
            THEN extend_each(rest, extend_days, cu, U, A, ST)
            ELSE LET old_end_date == A[ad_id].end_date
                     new_end_date == old_end_date + extend_days
                     owner == A[ad_id].user_id
                 IN extend_each(rest, extend_days, cu, U,
                        [A EXCEPT ![ad_id] =
                            [@ EXCEPT !.end_date = new_end_date,
                                      !.work_days = (new_end_date - A[ad_id].start_date) + 1]],
                        Append(ST, [settlement_type |-> "extend",
                                    agency_user_id |-> IF U[owner].role = "advertiser"
                                                       THEN U[owner].parent_user_id ELSE None,
                                    advertiser_user_id |-> owner,
                                    ad_id |-> ad_id,
                                    period_start |-> old_end_date + 1,
                                    period_end |-> new_end_date,
                                    total_days |-> extend_days]))

\* extend_advertisements(extend_request, db, current_user)
extend_advertisements(cu, now, ad_ids, extend_days, U, A, seq, ST, S) ==
    IF ~get_current_user(cu, S) THEN AdResp(401, "no_session", A, seq, ST)
    ELSE IF ~check_edit_time_allowed(cu.username, cu.role, now)
    THEN AdResp(403, "time_gate", A, seq, ST)
    ELSE LET r == extend_each(ad_ids, extend_days, cu, U, A, ST)
         IN AdResp(200, "", r.ads, seq, r.settlements)

\* ---------------------------------------------------------- settlement writes
SettlementResp(status, error, ST) == [status |-> status, error |-> error, settlements |-> ST]

\* create_settlement(settlement, db): the route has no current_user and calls
\* check_edit_time_allowed() with no arguments
create_settlement(now, req, U, A, ST) ==
    IF ~check_edit_time_allowed("", "", now) THEN SettlementResp(403, "time_gate", ST)
    ELSE IF req.settlement_type \notin valid_types THEN SettlementResp(400, "invalid_type", ST)
    ELSE IF req.agency_user_id # None /\ ~UserExists(U, req.agency_user_id)
    THEN SettlementResp(404, "agency_not_found", ST)
    ELSE IF req.advertiser_user_id # None /\ ~UserExists(U, req.advertiser_user_id)
    THEN SettlementResp(404, "advertiser_not_found", ST)
    ELSE IF req.ad_id # None /\ req.ad_id \notin DOMAIN A
    THEN SettlementResp(404, "ad_not_found", ST)
    ELSE IF req.period_start >= req.period_end THEN SettlementResp(400, "bad_period", ST)
    ELSE SettlementResp(200, "",
             Append(ST, [settlement_type |-> req.settlement_type,
                         agency_user_id |-> req.agency_user_id,
                         advertiser_user_id |-> req.advertiser_user_id,
                         ad_id |-> req.ad_id,
                         period_start |-> req.period_start,
                         period_end |-> req.period_end,
                         total_days |-> (req.period_end - req.period_start) + 1]))

\* mutant: the row is looked up before the time gate is read
update_settlement_lookup_first(now, settlement_id, req, ST) ==
    IF settlement_id \notin DOMAIN ST THEN SettlementResp(404, "settlement_not_found", ST)
    ELSE IF ~check_edit_time_allowed("", "", now) THEN SettlementResp(403, "time_gate", ST)
    ELSE SettlementResp(200, "", ST)

\* update_settlement(settlement_id, settlement, db); settlement_type = "" and
\* period_start / period_end = None are fields left out of the body
update_settlement(now, settlement_id, req, ST) ==
    IF ~check_edit_time_allowed("", "", now) THEN SettlementResp(403, "time_gate", ST)
    ELSE IF settlement_id \notin DOMAIN ST THEN SettlementResp(404, "settlement_not_found", ST)
    ELSE IF req.settlement_type # "" /\ req.settlement_type \notin valid_types
    THEN SettlementResp(400, "invalid_type", ST)
    ELSE LET period_start == IF req.period_start # None THEN req.period_start
                             ELSE ST[settlement_id].period_start
             period_end == IF req.period_end # None THEN req.period_end
                           ELSE ST[settlement_id].period_end
             dated == req.period_start # None \/ req.period_end # None
         IN IF dated /\ period_start >= period_end THEN SettlementResp(400, "bad_period", ST)
            ELSE SettlementResp(200, "",
                     [ST EXCEPT ![settlement_id] =
                         [@ EXCEPT !.settlement_type =
                                       IF req.settlement_type # "" THEN req.settlement_type ELSE @,
                                   !.period_start = IF dated THEN period_start ELSE @,
                                   !.period_end = IF dated THEN period_end ELSE @,
                                   !.total_days = IF dated THEN (period_end - period_start) + 1
                                                  ELSE @]])

\* ------------------------------------------------------------ request inputs
AdIdInputs == 0..MaxAds

\* AdvertisementUpdate bodies
AdvertisementUpdateInputs ==
    {b \in [status : {"", "normal", "ended", "paused"},
            start_date : {None} \cup Dates, end_date : {None} \cup Dates,
            set_work_days : BOOLEAN, work_days : {1}] :
        b.set_work_days => (b.status = "" /\ b.start_date = None /\ b.end_date = None)}

\* AdvertisementExtend.extend_days: an int the handler does not validate
ExtendDays == {-1, 1}

\* SettlementCreate bodies
SettlementCreateInputs ==
    [settlement_type : {"refund", "bonus"},
     agency_user_id : {None},
     advertiser_user_id : {None, MaxUsers, MaxUsers + 1},
     ad_id : AdIdInputs,
     period_start : Dates, period_end : Dates]

\* SettlementUpdate bodies
SettlementUpdateInputs ==
    [settlement_type : {"", "refund", "bonus"},
     period_start : {None}, period_end : {None} \cup Dates]

SettlementIdInputs == 0..MaxSettlements

\* ------------------------------------------------------------------- actions
\* a directory the account handlers build: a total, its agency, the agency's
\* advertiser (u1 creates u2, u2 creates u3)
SeedHierarchy ==
    <<[username |-> "u1", role |-> "total", parent_user_id |-> None, is_active |-> TRUE],
      [username |-> "u2", role |-> "agency", parent_user_id |-> 1, is_active |-> TRUE],
      [username |-> "u3", role |-> "advertiser", parent_user_id |-> 2, is_active |-> TRUE]>>

InitEdits ==
    /\ users = SeedHierarchy
    /\ sessions = {}
    /\ ads = <<>>
    /\ ad_seq = 0
    /\ settlements = <<>>
    /\ StoreInit

UpdateAdvertisement ==
    \E cu \in Callers, now \in Times, ad_id \in AdIdInputs, req \in AdvertisementUpdateInputs :
        LET r == update_advertisement(cu, now, ad_id, req, users, ads, ad_seq, settlements, sessions) IN
        /\ ads' = r.ads
        /\ ad_seq' = r.ad_seq
        /\ settlements' = r.settlements
        /\ UNCHANGED <<users, sessions, store_vars>>

ExtendAdvertisements ==
    \E cu \in Callers, now \in Times, ad_ids \in AdIdLists, extend_days \in ExtendDays :
        LET r == extend_advertisements(cu, now, ad_ids, extend_days, users, ads, ad_seq,
                                       settlements, sessions) IN
        /\ Len(r.settlements) <= MaxSettlements
        /\ \A a \in DOMAIN r.ads : r.ads[a].end_date <= MaxExtendedDate
        /\ ads' = r.ads
        /\ ad_seq' = r.ad_seq
        /\ settlements' = r.settlements
        /\ UNCHANGED <<users, sessions, store_vars>>

CreateSettlement ==
    \E now \in Times, req \in SettlementCreateInputs :
        /\ Len(settlements) < MaxSettlements
        /\ settlements' = create_settlement(now, req, users, ads, settlements).settlements
        /\ UNCHANGED <<users, sessions, ads, ad_seq, store_vars>>

UpdateSettlement ==
    \E now \in Times, settlement_id \in SettlementIdInputs, req \in SettlementUpdateInputs :
        /\ settlements' = update_settlement(now, settlement_id, req, settlements).settlements
        /\ UNCHANGED <<users, sessions, ads, ad_seq, store_vars>>

\* every handler that writes advertisements or settlements, over the seeded
\* hierarchy
NextEdits ==
    \/ Login
    \/ Logout
    \/ CreateAdvertisement
    \/ UpdateAdvertisement
    \/ DeleteAdvertisements
    \/ ExtendAdvertisements
    \/ CreateSettlement
    \/ UpdateSettlement

SpecEdits == InitEdits /\ [][NextEdits]_vars

\* ======================================================= deep account trees
\* rows of users_admin when accounts are created one under another
MaxTreeUsers == 4

InitTree ==
    /\ users = <<[username |-> "u1", role |-> "total", parent_user_id |-> None, is_active |-> TRUE]>>
    /\ sessions = {}
    /\ ads = <<>>
    /\ ad_seq = 0
    /\ settlements = <<>>
    /\ StoreInit

\* create_account before the cutoff, the body naming no parent
CreateAccountNoParent ==
    \E cu \in sessions, role \in valid_roles :
        /\ Len(users) < MaxTreeUsers
        /\ users' = create_account(cu, cutoff_time - 1,
                                   [username |-> GenericName(Len(users) + 1), role |-> role,
                                    parent_user_id |-> None],
                                   users, sessions).users
        /\ UNCHANGED <<sessions, ads, ad_seq, settlements, store_vars>>

\* update_account before the cutoff, the body holding the role alone
UpdateAccountRole ==
    \E cu \in sessions, user_id \in DOMAIN users, role \in valid_roles :
        /\ users' = update_account(cu, cutoff_time - 1, user_id,
                                   [role |-> role, set_active |-> FALSE, is_active |-> FALSE],
                                   users, sessions).users
        /\ UNCHANGED <<sessions, ads, ad_seq, settlements, store_vars>>

NextTree ==
    \/ Login
    \/ Logout
    \/ CreateAccountNoParent
    \/ UpdateAccountRole

SpecTree == InitTree /\ [][NextTree]_vars

\* ================================================== batches of advertisements
\* advertisements created when a batch request names several of them, and the
\* rows of settlement_admin their orders and extensions write
MaxBatchAds == 2
MaxBatchSettlements == 4

\* unauthorized_ids of delete_advertisements: the listed advertisements that
\* exist and that the ownership check denies
delete_unauthorized_ids(cu, ad_ids, U, A) ==
    {a \in ad_ids \cap DOMAIN A : ~check_advertisement_ownership(A[a].user_id, cu, U)}

\* unauthorized_ids of extend_advertisements, the ownership test read at the
\* indentation of the statements around it
extend_unauthorized_ids(cu, ad_ids, U, A) ==
    {a \in ad_ids \cap DOMAIN A : ~check_advertisement_ownership(A[a].user_id, cu, U)}

BatchAdIdInputs == 0..MaxBatchAds

BatchAdIdLists == {x \in SUBSET BatchAdIdInputs : Cardinality(x) <= MaxBatch}

\* AdvertisementUpdate bodies that hold the status alone
StatusUpdateInputs ==
    {b \in AdvertisementUpdateInputs :
        b.start_date = None /\ b.end_date = None /\ ~b.set_work_days}

CreateAdvertisementInBatch ==
    \E cu \in Callers, now \in Times, req \in AdvertisementCreateInputs :
        LET r == create_advertisement(cu, now, req, users, ads, ad_seq, settlements, sessions) IN
        /\ ad_seq < MaxBatchAds
        /\ ads' = r.ads
        /\ ad_seq' = r.ad_seq
        /\ settlements' = r.settlements
        /\ UNCHANGED <<users, sessions, store_vars>>

UpdateAdvertisementStatus ==
    \E cu \in Callers, now \in Times, ad_id \in BatchAdIdInputs, req \in StatusUpdateInputs :
        LET r == update_advertisement(cu, now, ad_id, req, users, ads, ad_seq, settlements, sessions) IN
        /\ ads' = r.ads
        /\ ad_seq' = r.ad_seq
        /\ settlements' = r.settlements
        /\ UNCHANGED <<users, sessions, store_vars>>

DeleteAdvertisementsBatch ==
    \E cu \in Callers, now \in Times, ad_ids \in BatchAdIdLists :
        LET r == delete_advertisements(cu, now, ad_ids, users, ads, ad_seq, settlements, sessions) IN
        /\ ads' = r.ads
        /\ ad_seq' = r.ad_seq
        /\ settlements' = r.settlements
        /\ UNCHANGED <<users, sessions, store_vars>>

ExtendAdvertisementsBatch ==
    \E cu \in Callers, now \in Times, ad_ids \in BatchAdIdLists, extend_days \in ExtendDays :
        LET r == extend_advertisements(cu, now, ad_ids, extend_days, users, ads, ad_seq,
                                       settlements, sessions) IN
        /\ Len(r.settlements) <= MaxBatchSettlements
        /\ \A a \in DOMAIN r.ads : r.ads[a].end_date <= MaxExtendedDate
        /\ ads' = r.ads
        /\ ad_seq' = r.ad_seq
        /\ settlements' = r.settlements
        /\ UNCHANGED <<users, sessions, store_vars>>

\* batch requests over two advertisements of the seeded hierarchy
NextBatch ==
    \/ Login
    \/ Logout
    \/ CreateAdvertisementInBatch
    \/ UpdateAdvertisementStatus
    \/ DeleteAdvertisementsBatch
    \/ ExtendAdvertisementsBatch

SpecBatch == InitEdits /\ [][NextBatch]_vars

\* ========================================= advertisements over account trees
\* advertisements created while accounts are created and their roles changed
NextScopes ==
    \/ Login
    \/ Logout
    \/ CreateAccountNoParent
    \/ UpdateAccountRole
    \/ CreateAdvertisement

SpecScopes == InitTree /\ [][NextScopes]_vars

\* ========================================================= the session store
\* tokens secrets.token_urlsafe may return, and the last day of the calendar
MaxTokens == 2
MaxClock == 2

Tokens == 1..MaxTokens

\* timedelta(days=1) and timedelta(days=30), in days
ONE_DAY == 1
THIRTY_DAYS == 30

\* the dict without a key: del sessions[token]
Without(store, token) == [k \in DOMAIN store \ {token} |-> store[k]]

\* what get_session hands back when it returns None
NoSession == [user_id |-> None, username |-> "", role |-> "", created_at |-> 0, expires_at |-> 0]

\* create_session(user_id, username, role, remember_me) run at time now, token
\* being the value secrets.token_urlsafe(32) returned: the dict afterwards
create_session(token, identity, remember_me, now, store) ==
    (token :> [user_id |-> identity.user_id,
               username |-> identity.username,
               role |-> identity.role,
               created_at |-> now,
               expires_at |-> now + (IF remember_me THEN THIRTY_DAYS ELSE ONE_DAY)])
        @@ store

\* mutant: the expiry is not read
get_session_unexpiring(token, now, store) ==
    IF token \notin DOMAIN store THEN [ok |-> FALSE, session |-> NoSession, store |-> store]
    ELSE [ok |-> TRUE, session |-> store[token], store |-> store]

\* get_session(token) run in one piece at time now: ok = FALSE is the result
\* None, else session is the record returned; store is the dict afterwards
get_session(token, now, store) ==
    IF token \notin DOMAIN store THEN [ok |-> FALSE, session |-> NoSession, store |-> store]
    ELSE IF now > store[token].expires_at
    THEN [ok |-> FALSE, session |-> NoSession, store |-> Without(store, token)]
    ELSE [ok |-> TRUE, session |-> store[token], store |-> store]

\* delete_session(token) run in one piece
delete_session(token, store) ==
    IF token \in DOMAIN store THEN [result |-> TRUE, store |-> Without(store, token)]
    ELSE [result |-> FALSE, store |-> store]

\* cleanup_expired_sessions() run in one piece at time now: the dict afterwards
cleanup_expired_sessions(now, store) ==
    LET expired_tokens == {token \in DOMAIN store : now > store[token].expires_at}
    IN [k \in DOMAIN store \ expired_tokens |-> store[k]]

\* the identities login passes to create_session: a hardcoded account and an
\* account of users_admin
StoreIdentities == {login(n, TRUE, users).identity : n \in {"admin", GenericName(1)}}

\* ------------------------------------------------------------------- actions
\* the wall clock moves on by a day
Tick ==
    /\ clock < MaxClock
    /\ clock' = clock + 1
    /\ UNCHANGED <<users, sessions, ads, ad_seq, settlements, session_store, calls>>

CreateSession ==
    \E token \in Tokens \ DOMAIN session_store, identity \in StoreIdentities,
       remember_me \in BOOLEAN :
        /\ session_store' = create_session(token, identity, remember_me, clock, session_store)
        /\ UNCHANGED <<users, sessions, ads, ad_seq, settlements, clock, calls>>

GetSession ==
    \E token \in Tokens :
        /\ session_store' = get_session(token, clock, session_store).store
        /\ UNCHANGED <<users, sessions, ads, ad_seq, settlements, clock, calls>>

DeleteSession ==
    \E token \in Tokens :
        /\ session_store' = delete_session(token, session_store).store
        /\ UNCHANGED <<users, sessions, ads, ad_seq, settlements, clock, calls>>

CleanupExpiredSessions ==
    /\ session_store' = cleanup_expired_sessions(clock, session_store)
    /\ UNCHANGED <<users, sessions, ads, ad_seq, settlements, clock, calls>>

\* the session functions called one after another
NextSessions ==
    \/ Tick
    \/ CreateSession
    \/ GetSession
    \/ DeleteSession
    \/ CleanupExpiredSessions

SpecSessions == InitEdits /\ [][NextSessions]_vars

\* ============================================== the session store, threaded
\* The session functions are plain functions on a module-level dict with no
\* lock; get_current_user is a sync dependency and runs in the server's thread
\* pool.  The interpreter may switch threads between any two statements; one
\* dict operation (in, [], del, item assignment, one step of an iterator) is
\* atomic.  calls[t] holds the function thread t is in, the statement it is
\* at (pc) and its locals; after the call it holds the outcome until the
\* thread's next call.

\* the call of thread t is over (or there was none)
Finished(t) == calls[t].op \in {"idle", "returned", "raised"}

\* return value of fn: ok = FALSE is None / False
Returned(fn, token, ok, session) ==
    [op |-> "returned", fn |-> fn, token |-> token, ok |-> ok, session |-> session]

\* an exception leaves fn
Raised(fn, token, error) == [op |-> "raised", fn |-> fn, token |-> token, error |-> error]

\* the identity login passes to create_session in the threaded runs
ThreadIdentity == login(GenericName(1), TRUE, users).identity

\* a request thread enters get_session(token)
CallGetSession ==
    \E t \in Threads, token \in Tokens :
        /\ Finished(t)
        /\ calls' = [calls EXCEPT ![t] =
                        [op |-> "get_session", pc |-> "contains", token |-> token,
                         session |-> NoSession]]
        /\ UNCHANGED <<users, sessions, ads, ad_seq, settlements, session_store, clock>>

\* one statement of get_session
GetSessionStep ==
    \E t \in Threads :
        LET c == calls[t] IN
        /\ c.op = "get_session"
        /\ CASE c.pc = "contains" ->
                  \* if token not in sessions: return None
                  /\ calls' = [calls EXCEPT ![t] =
                                  IF c.token \notin DOMAIN session_store
                                  THEN Returned("get_session", c.token, FALSE, NoSession)
                                  ELSE [c EXCEPT !.pc = "subscript"]]
                  /\ UNCHANGED session_store
             [] c.pc = "subscript" ->
                  \* session = sessions[token]
                  /\ calls' = [calls EXCEPT ![t] =
                                  IF c.token \notin DOMAIN session_store
                                  THEN Raised("get_session", c.token, "KeyError")
                                  ELSE [c EXCEPT !.pc = "expiry",
                                                 !.session = session_store[c.token]]]
                  /\ UNCHANGED session_store
             [] c.pc = "expiry" ->
                  \* if datetime.now() > session["expires_at"]: ... else return session
                  /\ calls' = [calls EXCEPT ![t] =
                                  IF clock > c.session.expires_at
                                  THEN [c EXCEPT !.pc = "del"]
                                  ELSE Returned("get_session", c.token, TRUE, c.session)]
                  /\ UNCHANGED session_store
             [] c.pc = "del" ->
                  \* del sessions[token]; return None
                  IF c.token \notin DOMAIN session_store
                  THEN /\ calls' = [calls EXCEPT ![t] = Raised("get_session", c.token, "KeyError")]
                       /\ UNCHANGED session_store
                  ELSE /\ calls' = [calls EXCEPT ![t] =
                                       Returned("get_session", c.token, FALSE, NoSession)]
                       /\ session_store' = Without(session_store, c.token)
        /\ UNCHANGED <<users, sessions, ads, ad_seq, settlements, clock>>

\* logout enters delete_session(token)
CallDeleteSession ==
    \E t \in Threads, token \in Tokens :
        /\ Finished(t)
        /\ calls' = [calls EXCEPT ![t] =
                        [op |-> "delete_session", pc |-> "contains", token |-> token]]
        /\ UNCHANGED <<users, sessions, ads, ad_seq, settlements, session_store, clock>>

\* one statement of delete_session
DeleteSessionStep ==
    \E t \in Threads :
        LET c == calls[t] IN
        /\ c.op = "delete_session"
        /\ CASE c.pc = "contains" ->
                  \* if token in sessions: ... return False
                  /\ calls' = [calls EXCEPT ![t] =
                                  IF c.token \in DOMAIN session_store
                                  THEN [c EXCEPT !.pc = "del"]
                                  ELSE Returned("delete_session", c.token, FALSE, NoSession)]
                  /\ UNCHANGED session_store
             [] c.pc = "del" ->
                  \* del sessions[token]; return True
                  IF c.token \notin DOMAIN session_store
                  THEN /\ calls' = [calls EXCEPT ![t] =
                                       Raised("delete_session", c.token, "KeyError")]
                       /\ UNCHANGED session_store
                  ELSE /\ calls' = [calls EXCEPT ![t] =
                                       Returned("delete_session", c.token, TRUE, NoSession)]
                       /\ session_store' = Without(session_store, c.token)
        /\ UNCHANGED <<users, sessions, ads, ad_seq, settlements, clock>>

\* login enters create_session; token is what secrets.token_urlsafe returns
\* and expires_at is computed from the first datetime.now()
CallCreateSession ==
    \E t \in Threads, token \in Tokens \ DOMAIN session_store, remember_me \in BOOLEAN :
        /\ Finished(t)
        /\ calls' = [calls EXCEPT ![t] =
                        [op |-> "create_session", pc |-> "store", token |-> token,
                         expires_at |-> clock + (IF remember_me THEN THIRTY_DAYS ELSE ONE_DAY)]]
        /\ UNCHANGED <<users, sessions, ads, ad_seq, settlements, session_store, clock>>

\* sessions[token] = {...}; return token
CreateSessionStep ==
    \E t \in Threads :
        LET c == calls[t] IN
        /\ c.op = "create_session"
        /\ session_store' =
               (c.token :> [user_id |-> ThreadIdentity.user_id,
                            username |-> ThreadIdentity.username,
                            role |-> ThreadIdentity.role,
                            created_at |-> clock,
                            expires_at |-> c.expires_at]) @@ session_store
        /\ calls' = [calls EXCEPT ![t] = Returned("create_session", c.token, TRUE, NoSession)]
        /\ UNCHANGED <<users, sessions, ads, ad_seq, settlements, clock>>

\* a thread enters cleanup_expired_sessions: now = datetime.now(), and the
\* comprehension opens the iterator of sessions.items() (keys: the keys then)
CallCleanup ==
    \E t \in Threads :
        /\ Finished(t)
        /\ calls' = [calls EXCEPT ![t] =
                        [op |-> "cleanup_expired_sessions", pc |-> "iterate", now |-> clock,
                         keys |-> DOMAIN session_store, visited |-> {}, expired_tokens |-> {}]]
        /\ UNCHANGED <<users, sessions, ads, ad_seq, settlements, session_store, clock>>

\* one statement of cleanup_expired_sessions.  The iterator raises RuntimeError
\* when the dict has another size than at its start; with the same size and
\* other keys it raises or goes on, as the dict's layout decides.
CleanupStep ==
    \E t \in Threads, raises \in BOOLEAN :
        LET c == calls[t]
            left == (DOMAIN session_store) \ c.visited
        IN
        /\ c.op = "cleanup_expired_sessions"
        /\ CASE c.pc = "iterate" ->
                  /\ raises => (DOMAIN session_store # c.keys)
                  /\ (Cardinality(DOMAIN session_store) # Cardinality(c.keys)) => raises
                  /\ calls' = [calls EXCEPT ![t] =
                        IF raises THEN Raised("cleanup_expired_sessions", None, "RuntimeError")
                        ELSE IF left = {} THEN [c EXCEPT !.pc = "del"]
                        ELSE LET token == CHOOSE x \in left : \A y \in left : x <= y
                             IN [c EXCEPT !.visited = @ \cup {token},
                                          !.expired_tokens =
                                              IF c.now > session_store[token].expires_at
                                              THEN @ \cup {token} ELSE @]]
                  /\ UNCHANGED session_store
             [] c.pc = "del" ->
                  \* for token in expired_tokens: del sessions[token]
                  /\ ~raises
                  /\ IF c.expired_tokens = {}
                     THEN /\ calls' = [calls EXCEPT ![t] =
                                  Returned("cleanup_expired_sessions", None, FALSE, NoSession)]
                          /\ UNCHANGED session_store
                     ELSE LET token == CHOOSE x \in c.expired_tokens :
                                           \A y \in c.expired_tokens : x <= y
                          IN IF token \notin DOMAIN session_store
                             THEN /\ calls' = [calls EXCEPT ![t] =
                                      Raised("cleanup_expired_sessions", token, "KeyError")]
                                  /\ UNCHANGED session_store
                             ELSE /\ calls' = [calls EXCEPT ![t] =
                                      [c EXCEPT !.expired_tokens = @ \ {token}]]
                                  /\ session_store' = Without(session_store, token)
        /\ UNCHANGED <<users, sessions, ads, ad_seq, settlements, clock>>

\* the session functions running in different threads, statement by statement
NextThreads ==
    \/ Tick
    \/ CallGetSession
    \/ GetSessionStep
    \/ CallDeleteSession
    \/ DeleteSessionStep
    \/ CallCreateSession
    \/ CreateSessionStep
    \/ CallCleanup
    \/ CleanupStep

SpecThreads == InitEdits /\ [][NextThreads]_vars

\* ================================================================== claims
\* the superuser of the specification: a username of either allow-list, or the
\* role admin (the role login gives both hardcoded accounts)
IsSuperuser(cu) ==
    \/ cu.username \in ROUTER_SUPERUSERS \cup SUPERUSER_USERNAMES
    \/ cu.role = "admin"

NonSuperuser(cu) == ~IsSuperuser(cu)

\* the session's role is the role users_admin holds for its username now
Fresh(cu) ==
    /\ UserIdByUsername(users, cu.username) # None
    /\ users[UserIdByUsername(users, cu.username)].role = cu.role

Stale(cu) ==
    /\ UserIdByUsername(users, cu.username) # None
    /\ users[UserIdByUsername(users, cu.username)].role # cu.role

\* ----------------------------------------------------------------------- C1
ExpectedTotalScope(t) ==
    LET agencies == {i \in DOMAIN users :
                        users[i].parent_user_id = t /\ users[i].role = "agency"}
    IN {t} \cup agencies
           \cup {i \in DOMAIN users :
                    users[i].role = "advertiser" /\ users[i].parent_user_id \in agencies}

\* C1: for a non-superuser caller with role total and a fresh identity, the
\* account filter and the advertisement filter admit exactly the caller, its
\* direct children of role agency, and the advertisers whose parent is one of
\* those agencies.
C1_TotalScopeExact ==
    \A cu \in sessions :
        (NonSuperuser(cu) /\ cu.role = "total" /\ Fresh(cu)) =>
            /\ apply_account_permission_filter(cu, users).status = 200
            /\ apply_account_permission_filter(cu, users).ids = ExpectedTotalScope(cu.user_id)
            /\ apply_advertisement_permission_filter(cu, users).owners
                   = ExpectedTotalScope(cu.user_id)

\* ----------------------------------------------------------------------- C2
ExpectedAgencyScope(a) ==
    {a} \cup {i \in DOMAIN users :
                 users[i].parent_user_id = a /\ users[i].role = "advertiser"}

\* C2: for a non-superuser caller with role agency, whenever a scope is
\* computed it is exactly the caller plus its direct children of role
\* advertiser: a fresh caller always gets that scope from the account filter,
\* the advertisement filter always gives it, and no other agency, no total and
\* no advertiser of another parent is in it.
C2_AgencyScopeExact ==
    \A cu \in sessions :
        (NonSuperuser(cu) /\ cu.role = "agency") =>
            LET f == apply_account_permission_filter(cu, users)
                g == apply_advertisement_permission_filter(cu, users)
            IN /\ Fresh(cu) => f.status = 200
               /\ f.status = 200 => f.ids = ExpectedAgencyScope(cu.user_id)
               /\ g.status = 200 /\ g.owners = ExpectedAgencyScope(cu.user_id)
               /\ \A i \in (f.ids \cup g.owners) \ {cu.user_id} :
                     users[i].role = "advertiser" /\ users[i].parent_user_id = cu.user_id

\* an agency is logged in, its scope holds itself and an advertiser child, and
\* some other account is left out
C2_Witness ==
    \E cu \in sessions :
        /\ NonSuperuser(cu) /\ cu.role = "agency" /\ Fresh(cu)
        /\ Cardinality(apply_account_permission_filter(cu, users).ids) = 2
        /\ apply_advertisement_permission_filter(cu, users).owners
               = apply_account_permission_filter(cu, users).ids
        /\ DOMAIN users \ apply_account_permission_filter(cu, users).ids # {}

\* ----------------------------------------------------------------------- C3
\* C3: for every superuser caller (a username of an allow-list, or the role
\* admin that login gives the hardcoded accounts) the account list and the
\* advertisement list are unfiltered, and the account access check and the
\* advertisement ownership check allow every target.
C3_SuperuserUnrestricted ==
    \A cu \in sessions :
        IsSuperuser(cu) =>
            /\ apply_account_permission_filter(cu, users).status = 200
            /\ ~apply_account_permission_filter(cu, users).filtered
            /\ apply_advertisement_permission_filter(cu, users).status = 200
            /\ ~apply_advertisement_permission_filter(cu, users).filtered
            /\ \A t \in DOMAIN users :
                  /\ check_account_access_permission(t, cu, users)
                  /\ check_advertisement_ownership(t, cu, users)

\* ----------------------------------------------------------------------- C4
\* C4: a non-superuser caller changes an account through update_account or
\* delete_accounts only if check_access(caller, account) allows it: whatever
\* the request, a row the check denies is committed as it was.
C4_MutationNeedsAccess ==
    \A cu \in sessions, now \in Times, t \in DOMAIN users :
        (NonSuperuser(cu) /\ ~check_account_access_permission(t, cu, users)) =>
            /\ \A req \in AccountUpdateInputs :
                  update_account(cu, now, t, req, users, sessions).users[t] = users[t]
            /\ \A user_ids \in UserIdLists :
                  delete_accounts(cu, now, user_ids, users, sessions).users[t] = users[t]

\* ----------------------------------------------------------------------- C5
\* the advertiser ids a caller may see: the advertisement scope of a session,
\* nothing for a request without a session
SettlementScope(cu) ==
    IF cu \in sessions /\ apply_advertisement_permission_filter(cu, users).status = 200
    THEN apply_advertisement_permission_filter(cu, users).owners
    ELSE {}

\* C5: the settlement list and the settlement detail return a settlement to a
\* caller that is not a superuser only if its advertiser_user_id is in the
\* caller's scope; an unauthenticated caller gets none.
C5_SettlementsScoped ==
    \A cu \in Callers :
        NonSuperuser(cu) =>
            /\ \A k \in get_settlements(settlements) :
                  settlements[k].advertiser_user_id \in SettlementScope(cu)
            /\ \A k \in 1..MaxAds :
                  get_settlement(k, settlements) = 200 =>
                      settlements[k].advertiser_user_id \in SettlementScope(cu)

\* ----------------------------------------------------------------------- C6
\* C6: for a non-superuser caller of role total (fresh identity) and a target
\* other than the caller, the account access check and the advertisement
\* ownership check both allow iff the target's parent is the caller or one of
\* the caller's direct agency children.
C6_TotalAccessIff ==
    \A cu \in sessions :
        (NonSuperuser(cu) /\ cu.role = "total" /\ Fresh(cu)) =>
            \A t \in DOMAIN users \ {cu.user_id} :
                LET expected ==
                        \/ users[t].parent_user_id = cu.user_id
                        \/ \E a \in DOMAIN users :
                              /\ users[a].parent_user_id = cu.user_id
                              /\ users[a].role = "agency"
                              /\ users[t].parent_user_id = a
                IN /\ check_account_access_permission(t, cu, users) = expected
                   /\ check_advertisement_ownership(t, cu, users) = expected

\* ----------------------------------------------------------------------- C7
\* the rule of the claim for an agency caller and a target t
AgencyMayAccess(cu, t) ==
    users[t].parent_user_id = cu.user_id /\ users[t].role = "advertiser"

C7_WitnessSibling ==
    \E cu \in sessions :
        /\ NonSuperuser(cu) /\ cu.role = "agency" /\ Fresh(cu)
        /\ \E a2 \in DOMAIN users \ {cu.user_id}, v2 \in DOMAIN users :
              /\ users[a2].role = "agency"
              /\ users[v2].role = "advertiser" /\ users[v2].parent_user_id = a2
              /\ ~check_account_access_permission(v2, cu, users)
              /\ ~check_advertisement_ownership(v2, cu, users)

C8_Reflexive_Original ==
    \A cu \in sessions :
        (NonSuperuser(cu) /\ UserExists(users, cu.user_id)) =>
            /\ check_account_access_permission(cu.user_id, cu, users)
            /\ check_advertisement_ownership(cu.user_id, cu, users)

\* C8 amended: the advertisement ownership check allows every non-superuser X
\* on an advertisement X owns; the account access check allows X on X exactly
\* when X's session role is still the directory role.
C8_Reflexive ==
    \A cu \in sessions :
        (NonSuperuser(cu) /\ UserExists(users, cu.user_id)) =>
            /\ check_account_access_permission(cu.user_id, cu, users) = Fresh(cu)
            /\ check_advertisement_ownership(cu.user_id, cu, users)

\* sessions of all three roles have been checked on themselves: here an
\* advertiser with a fresh session that both checks allow on itself
C8_Witness ==
    \E cu \in sessions :
        /\ NonSuperuser(cu) /\ Fresh(cu) /\ cu.role = "advertiser"
        /\ check_account_access_permission(cu.user_id, cu, users)
        /\ check_advertisement_ownership(cu.user_id, cu, users)

\* ----------------------------------------------------------------------- C9
\* C9: when the session role differs from the role users_admin holds for the
\* username, the account filter and the advertisement filter both end in an
\* authorization error.
C9_StaleIdentityRejected ==
    \A cu \in sessions :
        (NonSuperuser(cu) /\ Stale(cu)) =>
            /\ apply_account_permission_filter(cu, users).status = 403
            /\ apply_advertisement_permission_filter(cu, users).status = 403

\* ---------------------------------------------------------------------- C10
\* C10: for every caller the two filters fail in the same cases, and when
\* they return, the owners the advertisement filter admits are the user_ids
\* the account filter admits.
C10_FiltersAgree ==
    \A cu \in sessions :
        LET f == apply_account_permission_filter(cu, users)
            g == apply_advertisement_permission_filter(cu, users)
        IN /\ (f.status = 200) = (g.status = 200)
           /\ (f.status = 200 /\ g.status = 200) => g.owners = f.ids

\* ---------------------------------------------------------------------- C11
\* times of day the gate is read at: 00:00:00, 16:29:59, 16:30:00, 23:59:59
GateTimes == {0, cutoff_time - 1, cutoff_time, (24 * 3600) - 1}

\* C11: at 16:30:00 or later the time gate rejects a caller that is not a
\* superuser and before 16:30:00 it lets the caller through; a superuser is
\* let through at every time of day, 23:59:59 included.
C11_TimeGate ==
    \A cu \in sessions, now \in GateTimes :
        /\ NonSuperuser(cu) =>
              (check_edit_time_allowed(cu.username, cu.role, now) <=> now < cutoff_time)
        /\ IsSuperuser(cu) => check_edit_time_allowed(cu.username, cu.role, now)

\* ---------------------------------------------------------------------- C12
\* the error a handler ends with when the time gate rejects the request
GateRejected(r) == r.status = 403 /\ r.error = "time_gate"

\* C12: no mutating request of a superuser is rejected by the time gate, at
\* any time of day: create/update/delete of an account, create/update/delete/
\* extend of an advertisement, create/update of a settlement.
C12_SuperuserNeverGated ==
    \A cu \in sessions, now \in GateTimes :
        IsSuperuser(cu) =>
            /\ \A req \in AccountCreateInputs(users) :
                  ~GateRejected(create_account(cu, now, req, users, sessions))
            /\ \A user_id \in UserIdInputs, req \in AccountUpdateInputs :
                  ~GateRejected(update_account(cu, now, user_id, req, users, sessions))
            /\ \A user_ids \in UserIdLists :
                  ~GateRejected(delete_accounts(cu, now, user_ids, users, sessions))
            /\ \A req \in AdvertisementCreateInputs :
                  ~GateRejected(create_advertisement(cu, now, req, users, ads, ad_seq,
                                                     settlements, sessions))
            /\ \A ad_id \in AdIdInputs, req \in AdvertisementUpdateInputs :
                  ~GateRejected(update_advertisement(cu, now, ad_id, req, users, ads, ad_seq,
                                                     settlements, sessions))
            /\ \A ad_ids \in AdIdLists :
                  /\ ~GateRejected(delete_advertisements(cu, now, ad_ids, users, ads, ad_seq,
                                                         settlements, sessions))
                  /\ \A extend_days \in ExtendDays :
                        ~GateRejected(extend_advertisements(cu, now, ad_ids, extend_days, users,
                                                            ads, ad_seq, settlements, sessions))
            /\ \A req \in SettlementCreateInputs :
                  ~GateRejected(create_settlement(now, req, users, ads, settlements))
            /\ \A settlement_id \in SettlementIdInputs, req \in SettlementUpdateInputs :
                  ~GateRejected(update_settlement(now, settlement_id, req, settlements))

\* ---------------------------------------------------------------------- C13
\* a response that is the time gate's Forbidden and commits nothing
GatedAccounts(r) == GateRejected(r) /\ r.users = users
GatedAds(r) == GateRejected(r) /\ r.ads = ads /\ r.ad_seq = ad_seq /\ r.settlements = settlements
GatedSettlements(r) == GateRejected(r) /\ r.settlements = settlements

\* C13: at 16:30:00 or later every mutating request of a caller that is not
\* a superuser ends in the time gate's Forbidden, whatever else is wrong with
\* the request (missing target, invalid role or status, duplicate username,
\* failed ownership, bad dates), and accounts, advertisements and settlements
\* stay as they were.
C13_GateFirst ==
    \A cu \in sessions, now \in {cutoff_time, (24 * 3600) - 1} :
        NonSuperuser(cu) =>
            /\ \A req \in AccountCreateInputs(users) :
                  GatedAccounts(create_account(cu, now, req, users, sessions))
            /\ \A user_id \in UserIdInputs, req \in AccountUpdateInputs :
                  GatedAccounts(update_account(cu, now, user_id, req, users, sessions))
            /\ \A user_ids \in UserIdLists :
                  GatedAccounts(delete_accounts(cu, now, user_ids, users, sessions))
            /\ \A req \in AdvertisementCreateInputs :
                  GatedAds(create_advertisement(cu, now, req, users, ads, ad_seq,
                                                settlements, sessions))
            /\ \A ad_id \in AdIdInputs, req \in AdvertisementUpdateInputs :
                  GatedAds(update_advertisement(cu, now, ad_id, req, users, ads, ad_seq,
                                                settlements, sessions))
            /\ \A ad_ids \in AdIdLists :
                  /\ GatedAds(delete_advertisements(cu, now, ad_ids, users, ads, ad_seq,
                                                    settlements, sessions))
                  /\ \A extend_days \in ExtendDays :
                        GatedAds(extend_advertisements(cu, now, ad_ids, extend_days, users,
                                                       ads, ad_seq, settlements, sessions))
            /\ \A req \in SettlementCreateInputs :
                  GatedSettlements(create_settlement(now, req, users, ads, settlements))
            /\ \A settlement_id \in SettlementIdInputs, req \in SettlementUpdateInputs :
                  GatedSettlements(update_settlement(now, settlement_id, req, settlements))

\* an agency is logged in beside an advertisement of another account and a
\* settlement: at 16:29:59 an update of that advertisement fails the ownership
\* check, an update of a missing settlement is Not Found and an update of the
\* stored one succeeds, and at 16:30:00 all three end in the gate's Forbidden
C13_Witness ==
    \E cu \in sessions, ad_id \in DOMAIN ads, req \in AdvertisementUpdateInputs :
        /\ NonSuperuser(cu) /\ cu.role = "agency"
        /\ update_advertisement(cu, cutoff_time - 1, ad_id, req, users, ads, ad_seq,
                                settlements, sessions).error = "not_owner"
        /\ GatedAds(update_advertisement(cu, cutoff_time, ad_id, req, users, ads, ad_seq,
                                         settlements, sessions))
        /\ \E up \in SettlementUpdateInputs :
              /\ update_settlement(cutoff_time - 1, 0, up, settlements).status = 404
              /\ GatedSettlements(update_settlement(cutoff_time, 0, up, settlements))
              /\ update_settlement(cutoff_time - 1, 1, up, settlements).status = 200
              /\ GatedSettlements(update_settlement(cutoff_time, 1, up, settlements))

\* ---------------------------------------------------------------------- C14
\* the parent/role compatibility of row i
ParentRoleCompatible(i) ==
    LET p == users[i].parent_user_id IN
    /\ users[i].role = "total" => p = None
    /\ (users[i].role = "agency" /\ p # None) =>
          (UserExists(users, p) /\ users[p].role = "total")
    /\ (users[i].role = "advertiser" /\ p # None) =>
          (UserExists(users, p) /\ users[p].role = "agency")

\* C14: in every state the account handlers reach, a total has no parent, the
\* parent of an agency (if set) is a total and the parent of an advertiser
\* (if set) is an agency.
C14_ParentRoleInvariant ==
    \A i \in DOMAIN users : ParentRoleCompatible(i)

\* ---------------------------------------------------------------------- C15
\* the number of parent links followed from row i, at most fuel of them
RECURSIVE ChainLength(_, _)
ChainLength(i, fuel) ==
    IF fuel = 0 \/ ~UserExists(users, users[i].parent_user_id) THEN 0
    ELSE 1 + ChainLength(users[i].parent_user_id, fuel - 1)

\* C15: the parent links form a forest: following them from any account ends
\* (no cycle) after at most 2 links.
C15_ForestDepth ==
    \A i \in DOMAIN users :
        /\ ChainLength(i, Len(users) + 1) <= Len(users)
        /\ ChainLength(i, Len(users) + 1) <= 2

\* ---------------------------------------------------------------------- C16
\* the parent the policy gives a new account, from the creator's role and id,
\* the new role and the supplied parent
ExpectedParent(creator_role, creator_id, req) ==
    CASE req.role = "total" -> None
      [] req.role = "agency" ->
            IF creator_role = "total" \/ req.parent_user_id = None
            THEN creator_id ELSE req.parent_user_id
      [] req.role = "advertiser" ->
            IF creator_role = "agency" \/ req.parent_user_id = None
            THEN creator_id ELSE req.parent_user_id

\* C16: when a caller that is not a superuser creates an account, the parent
\* assigned before validation is ExpectedParent, the row a successful create
\* commits holds it, and a total creating an agency under a free username with
\* no parent supplied succeeds and stores its own user_id as the parent.
C16_ParentAssigned ==
    \A cu \in sessions :
        (NonSuperuser(cu) /\ Fresh(cu)) =>
            \A req \in AccountCreateInputs(users) :
                req.role \in valid_roles =>
                    LET me == UserIdByUsername(users, cu.username)
                        r == create_account(cu, cutoff_time - 1, req, users, sessions)
                        new == Len(users) + 1
                    IN /\ assign_parent(cu, me, users[me].role, req)
                              = ExpectedParent(cu.role, cu.user_id, req)
                       /\ r.status = 200 =>
                              /\ Len(r.users) = new
                              /\ r.users[new].parent_user_id
                                     = ExpectedParent(cu.role, cu.user_id, req)
                       /\ (/\ cu.role = "total" /\ req.role = "agency"
                           /\ req.parent_user_id = None
                           /\ UserIdByUsername(users, req.username) = None)
                          => /\ r.status = 200
                             /\ r.users[new].parent_user_id = cu.user_id

\* a total is logged in and an agency it created holds its user_id as parent,
\* and a further create by it with a supplied parent would be overridden
C16_Witness ==
    \E cu \in sessions, i \in DOMAIN users :
        /\ NonSuperuser(cu) /\ Fresh(cu) /\ cu.role = "total"
        /\ users[i].role = "agency" /\ users[i].parent_user_id = cu.user_id
        /\ \E req \in AccountCreateInputs(users) :
              /\ req.role = "agency" /\ req.parent_user_id \notin {None, cu.user_id}
              /\ create_account(cu, cutoff_time - 1, req, users, sessions).status = 200

\* ---------------------------------------------------------------------- C17
\* a create request with role total that names a parent
TotalWithParent(req) == req.role = "total" /\ req.parent_user_id # None

\* the request passes what create_account tests before the parent assignment:
\* the time gate, the free username, the caller's row and its role
ReachesAssignment(cu, now, req) ==
    /\ check_edit_time_allowed(cu.username, cu.role, now)
    /\ UserIdByUsername(users, req.username) = None
    /\ Fresh(cu)

\* C17 as stated: for every creator, a create with role total and a non-null
\* parent fails and no account is created.
C17_TotalWithParentFails_Original ==
    \A cu \in sessions, now \in Times, req \in AccountCreateInputs(users) :
        TotalWithParent(req) =>
            LET r == create_account(cu, now, req, users, sessions)
            IN r.status # 200 /\ r.users = users

\* C17 amended: a create with role total and a non-null parent by a creator of
\* the routers' allow-list never creates an account and, once it reaches the
\* parent validation, ends in the hierarchy error; by any other creator it is
\* never a hierarchy error: once it reaches the assignment the account is
\* created, as a total with no parent.
C17_TotalWithParentFails ==
    \A cu \in sessions, now \in Times, req \in AccountCreateInputs(users) :
        TotalWithParent(req) =>
            LET r == create_account(cu, now, req, users, sessions)
                new == Len(users) + 1
            IN /\ cu.username \in ROUTER_SUPERUSERS =>
                      /\ r.status # 200 /\ r.users = users
                      /\ ReachesAssignment(cu, now, req) =>
                            (r.status = 400 /\ r.error = "total_has_parent")
               /\ cu.username \notin ROUTER_SUPERUSERS =>
                      /\ r.error # "total_has_parent"
                      /\ ReachesAssignment(cu, now, req) =>
                            /\ r.status = 200 /\ Len(r.users) = new
                            /\ r.users[new].role = "total"
                            /\ r.users[new].parent_user_id = None

\* a creator of the allow-list is logged in with a row of its own, and its
\* create of a total under an existing parent ends in the hierarchy error
C17_Witness ==
    \E cu \in sessions, req \in AccountCreateInputs(users) :
        /\ cu.username \in ROUTER_SUPERUSERS /\ Fresh(cu)
        /\ TotalWithParent(req) /\ UserExists(users, req.parent_user_id)
        /\ create_account(cu, cutoff_time - 1, req, users, sessions).error = "total_has_parent"

\* ---------------------------------------------------------------------- C18
\* the role a parent must have for a new account of the given role
ParentRoleFor(role) == IF role = "agency" THEN "total" ELSE "agency"

\* the assigned parent fp is set and is missing or of the wrong role
BadParent(role, fp) ==
    /\ role \in {"agency", "advertiser"}
    /\ fp # None
    /\ (~UserExists(users, fp) \/ users[fp].role # ParentRoleFor(role))

\* C18: when the parent that create_account assigns does not exist or has a
\* role incompatible with the new role, the request fails (with the hierarchy
\* error once it reaches the validation) and users_admin is unchanged; so do
\* an advertiser or a total creating an advertiser, and an agency or an
\* advertiser creating an agency, with no parent supplied.
C18_BadParentRejected ==
    \A cu \in sessions, now \in Times, req \in AccountCreateInputs(users) :
        LET me == UserIdByUsername(users, cu.username)
            r == create_account(cu, now, req, users, sessions)
            hierarchy_error ==
                /\ r.status = 400
                /\ r.error \in {"parent_not_found", "agency_parent_not_total",
                                "advertiser_parent_not_agency"}
                /\ r.users = users
        IN /\ (me # None /\ BadParent(req.role, assign_parent(cu, me, users[me].role, req))) =>
                  /\ r.status # 200 /\ r.users = users
                  /\ ReachesAssignment(cu, now, req) => hierarchy_error
           /\ (/\ NonSuperuser(cu) /\ ReachesAssignment(cu, now, req)
               /\ req.parent_user_id = None
               /\ \/ req.role = "advertiser" /\ cu.role \in {"advertiser", "total"}
                  \/ req.role = "agency" /\ cu.role \in {"agency", "advertiser"})
              => hierarchy_error

\* an advertiser is logged in and its create of an advertiser with no parent
\* supplied is rejected, as is its create of an agency under a missing parent
C18_Witness ==
    \E cu \in sessions :
        /\ NonSuperuser(cu) /\ Fresh(cu) /\ cu.role = "advertiser"
        /\ \E req \in AccountCreateInputs(users) :
              /\ req.role = "advertiser" /\ req.parent_user_id = None
              /\ create_account(cu, cutoff_time - 1, req, users, sessions).error
                     = "advertiser_parent_not_agency"
        /\ \E req \in AccountCreateInputs(users) :
              /\ req.role = "agency" /\ req.parent_user_id # None
              /\ create_account(cu, cutoff_time - 1, req, users, sessions).error
                     = "parent_not_found"

\* ---------------------------------------------------------------------- C19
\* the identity login issues for a hardcoded account
HardcodedIdentity(cu) ==
    /\ cu.username \in DOMAIN HARDCODED_ACCOUNTS
    /\ cu.user_id = HARDCODED_ACCOUNTS[cu.username].user_id
    /\ cu.role = HARDCODED_ACCOUNTS[cu.username].role

\* C19: a hardcoded superuser, with or without a row in users_admin, creates
\* an account under any explicit parent that is compatible with the new role:
\* the create succeeds and stores the parent as supplied.
C19_SuperuserExplicitParent ==
    \A cu \in sessions, now \in Times, req \in AccountCreateInputs(users) :
        (/\ HardcodedIdentity(cu)
         /\ req.role \in valid_roles
         /\ UserIdByUsername(users, req.username) = None
         /\ req.parent_user_id # None
         /\ validate_parent(req.role, req.parent_user_id, users) = "") =>
            LET r == create_account(cu, now, req, users, sessions)
            IN /\ r.status = 200
               /\ r.users[Len(users) + 1].parent_user_id = req.parent_user_id

\* ---------------------------------------------------------------------- C20
\* what delete_accounts commits for a request
SoftDeleteOnly(cu, now, user_ids) ==
    LET r == delete_accounts(cu, now, user_ids, users, sessions) IN
    /\ DOMAIN r.users = DOMAIN users
    /\ \A i \in DOMAIN users :
          IF r.status = 200 /\ i \in user_ids
          THEN r.users[i] = [users[i] EXCEPT !.is_active = FALSE]
          ELSE r.users[i] = users[i]

\* every user_id stays, with its username and its parent
AccountsKept ==
    /\ DOMAIN users \subseteq DOMAIN users'
    /\ \A i \in DOMAIN users :
          /\ users'[i].username = users[i].username
          /\ users'[i].parent_user_id = users[i].parent_user_id

\* C20: no step removes an account: the set of user_ids only grows; and
\* delete_accounts sets is_active = FALSE on the listed accounts that exist
\* and changes nothing else of them nor anything of the others.
C20_SoftDelete ==
    /\ [](\A cu \in Callers, now \in Times, user_ids \in UserIdLists :
              SoftDeleteOnly(cu, now, user_ids))
    /\ [][AccountsKept]_vars

\* an account has been deactivated, every row is still there, and a further
\* delete of an active account beside a missing id deactivates it alone
C20_Witness ==
    \E cu \in sessions, i \in DOMAIN users, j \in DOMAIN users :
        /\ ~users[i].is_active /\ users[j].is_active /\ Len(users) = MaxUsers
        /\ delete_accounts(cu, cutoff_time - 1, {0, j}, users, sessions).status = 200
        /\ ~delete_accounts(cu, cutoff_time - 1, {0, j}, users, sessions).users[j].is_active

\* ---------------------------------------------------------------------- C21
\* delete_advertisements keeps every settlement_id, for every request
DeleteKeepsSettlements ==
    \A cu \in Callers, now \in Times, ad_ids \in AdIdLists :
        DOMAIN settlements \subseteq
            DOMAIN delete_advertisements(cu, now, ad_ids, users, ads, ad_seq,
                                         settlements, sessions).settlements

\* C21: no step removes a settlement: the set of settlement_ids only grows,
\* also when the advertisement a settlement references is hard-deleted.
C21_SettlementsAppendOnly ==
    /\ []DeleteKeepsSettlements
    /\ [][DOMAIN settlements \subseteq DOMAIN settlements']_vars

\* an order settlement is still in the log after its advertisement was deleted
C21_Witness ==
    \E k \in DOMAIN settlements :
        /\ settlements[k].settlement_type = "order"
        /\ settlements[k].ad_id = None
        /\ ads = <<>>
        /\ ad_seq > 0

\* ---------------------------------------------------------------------- C22
\* the caller's own account and its descendants in the hierarchy
OwnOrDescendant(cu) ==
    CASE cu.role = "total" -> ExpectedTotalScope(cu.user_id)
      [] cu.role = "agency" -> ExpectedAgencyScope(cu.user_id)
      [] OTHER -> {cu.user_id}

\* C22: a non-superuser caller (fresh identity, before the cutoff, valid
\* dates) creates an advertisement exactly for the owners that are its own
\* account or a descendant; a request naming another owner is rejected and
\* leaves advertisements and settlements as they were.
C22_CreateForOwnSubtree ==
    \A cu \in sessions, req \in AdvertisementCreateInputs :
        (NonSuperuser(cu) /\ Fresh(cu) /\ req.start_date < req.end_date) =>
            LET r == create_advertisement(cu, cutoff_time - 1, req, users, ads, ad_seq,
                                          settlements, sessions)
            IN /\ r.status = 200 <=> req.user_id \in OwnOrDescendant(cu)
               /\ req.user_id \notin OwnOrDescendant(cu) =>
                      (r.ads = ads /\ r.ad_seq = ad_seq /\ r.settlements = settlements)

\* ---------------------------------------------------------------------- C23
\* the ownership check for a stored advertisement
Allowed(cu, a) == check_advertisement_ownership(ads[a].user_id, cu, users)

\* update_advertisement leaves an advertisement the check denies as it was
UpdateNeedsOwnership(cu, now) ==
    \A a \in DOMAIN ads, req \in AdvertisementUpdateInputs :
        ~Allowed(cu, a) =>
            update_advertisement(cu, now, a, req, users, ads, ad_seq, settlements,
                                 sessions).ads = ads

\* delete_advertisements removes the listed advertisements the check allows,
\* keeps and reports the listed ones it denies, and keeps the unlisted ones
DeleteBatchByOwnership(cu, now) ==
    \A ad_ids \in BatchAdIdLists :
        LET r == delete_advertisements(cu, now, ad_ids, users, ads, ad_seq, settlements, sessions)
            un == delete_unauthorized_ids(cu, ad_ids, users, ads)
        IN \A a \in DOMAIN ads :
              /\ (a \notin ad_ids \/ ~Allowed(cu, a)) => (a \in DOMAIN r.ads /\ r.ads[a] = ads[a])
              /\ a \in un <=> (a \in ad_ids /\ ~Allowed(cu, a))
              /\ (r.status = 200 /\ a \in ad_ids /\ Allowed(cu, a)) => a \notin DOMAIN r.ads

\* extend_advertisements extends the listed advertisements the check allows
\* (unless ended), keeps and reports the listed ones it denies, and keeps the
\* unlisted ones
ExtendBatchByOwnership(cu, now) ==
    \A ad_ids \in BatchAdIdLists, extend_days \in ExtendDays :
        LET r == extend_advertisements(cu, now, ad_ids, extend_days, users, ads, ad_seq,
                                       settlements, sessions)
            un == extend_unauthorized_ids(cu, ad_ids, users, ads)
        IN /\ DOMAIN r.ads = DOMAIN ads
           /\ \A a \in DOMAIN ads :
                 /\ (a \notin ad_ids \/ ~Allowed(cu, a)) => r.ads[a] = ads[a]
                 /\ a \in un <=> (a \in ad_ids /\ ~Allowed(cu, a))
                 /\ (r.status = 200 /\ a \in ad_ids /\ Allowed(cu, a)
                         /\ ads[a].status # "ended") =>
                        r.ads[a].end_date = ads[a].end_date + extend_days

C24_ReadScopeIsWriteScope ==
    \A cu \in sessions, a \in DOMAIN ads :
        NonSuperuser(cu) =>
            (a \in AdmittedAds(cu, users, ads)
                <=> check_advertisement_ownership(ads[a].user_id, cu, users))

\* ---------------------------------------------------------------------- C25
\* the clock values a lookup may see from now on: the days of the calendar and
\* the day after each stored expiry
LookupTimes ==
    (clock..MaxClock) \cup {session_store[t].expires_at + 1 : t \in DOMAIN session_store}

\* C25: get_session returns no session whose expiry has passed: for a stored
\* token and a clock value later than its expires_at it returns None and
\* removes the entry, a record it returns is the stored one and is not past its
\* expiry, and the result is the same when cleanup_expired_sessions ran before
\* the lookup.
C25_LookupChecksExpiry ==
    \A token \in Tokens, now \in LookupTimes :
        LET r == get_session(token, now, session_store) IN
        /\ (token \in DOMAIN session_store /\ now > session_store[token].expires_at) =>
               (~r.ok /\ token \notin DOMAIN r.store)
        /\ r.ok => (r.session = session_store[token] /\ ~(now > r.session.expires_at))
        /\ \A swept \in LookupTimes :
              swept <= now =>
                  LET q == get_session(token, now,
                                       cleanup_expired_sessions(swept, session_store))
                  IN q.ok = r.ok /\ q.session = r.session

\* the store holds a session past its expiry and a live one: the lookup of the
\* first gives None and removes it, the lookup of the second returns it
C25_Witness ==
    \E t \in DOMAIN session_store, u \in DOMAIN session_store :
        /\ clock > session_store[t].expires_at
        /\ ~get_session(t, clock, session_store).ok
        /\ DOMAIN get_session(t, clock, session_store).store = {u}
        /\ get_session(u, clock, session_store).ok

\* ---------------------------------------------------------------------- C26
\* a complete session record of the store
CompleteRecord(session) ==
    /\ session.user_id = ThreadIdentity.user_id
    /\ session.username = ThreadIdentity.username
    /\ session.role = ThreadIdentity.role
    /\ session.created_at <= session.expires_at

\* C26: under every interleaving of create_session, get_session,
\* delete_session and cleanup_expired_sessions in different threads, no call
\* ends in an internal error (KeyError, RuntimeError) and get_session returns
\* None or a complete record.
C26_StoreThreadSafe ==
    \A t \in Threads :
        /\ calls[t].op # "raised"
        /\ (calls[t].op = "returned" /\ calls[t].fn = "get_session" /\ calls[t].ok) =>
               CompleteRecord(calls[t].session)

\* ---------------------------------------------------------------------- C27
\* C27: after a successful create_account by a non-superuser creator (fresh
\* identity), the new account's parent_user_id is the creator or an account of
\* the creator's scope, and the new account is in the creator's scope on the
\* next request.
C27_CreateInsideSubtree ==
    \A cu \in sessions, now \in Times, req \in AccountCreateInputs(users) :
        (NonSuperuser(cu) /\ Fresh(cu)) =>
            LET r == create_account(cu, now, req, users, sessions)
                new == Len(users) + 1
            IN r.status = 200 =>
                   /\ r.users[new].parent_user_id
                          \in {cu.user_id} \cup apply_account_permission_filter(cu, users).ids
                   /\ new \in apply_account_permission_filter(cu, r.users).ids

\* ---------------------------------------------------------------------- C28
\* C28: every stored advertisement has start_date strictly before end_date.
C28_DatesOrdered ==
    \A a \in DOMAIN ads : ads[a].start_date < ads[a].end_date

\* ---------------------------------------------------------------------- C29
\* the settlements a response adds to the log
Added(r) == {r.settlements[k] : k \in (DOMAIN r.settlements) \ (DOMAIN settlements)}

\* no update and no extension changes an ended advertisement or logs an
\* extension for it
EndedUntouched ==
    \A a \in DOMAIN ads :
        ads[a].status = "ended" =>
            \A cu \in Callers, now \in Times :
                /\ \A req \in AdvertisementUpdateInputs :
                      LET r == update_advertisement(cu, now, a, req, users, ads, ad_seq,
                                                    settlements, sessions)
                      IN r.ads = ads /\ r.settlements = settlements
                /\ \A ad_ids \in BatchAdIdLists, extend_days \in ExtendDays :
                      LET r == extend_advertisements(cu, now, ad_ids, extend_days, users, ads,
                                                     ad_seq, settlements, sessions)
                      IN /\ r.ads[a] = ads[a]
                         /\ \A s \in Added(r) : s.ad_id # a

\* a step leaves an ended advertisement as it is, or deletes it
EndedKeptOrDeleted ==
    \A a \in DOMAIN ads :
        ads[a].status = "ended" => (a \notin DOMAIN ads' \/ ads'[a] = ads[a])

\* C29: the status ended is absorbing: no update_advertisement and no
\* extend_advertisements call changes a field of an ended advertisement or
\* writes an extend settlement for it; it can only be deleted.
C29_EndedAbsorbing ==
    /\ []EndedUntouched
    /\ [][EndedKeptOrDeleted]_vars

\* an ended advertisement and a pending one of the same caller: an update of
\* the first is refused, and an extension naming both extends the second alone
\* and logs one settlement, for the second
C29_Witness ==
    \E cu \in sessions, a \in DOMAIN ads, b \in DOMAIN ads :
        /\ ads[a].status = "ended" /\ ads[b].status = "pending"
        /\ Allowed(cu, a) /\ Allowed(cu, b)
        /\ update_advertisement(cu, cutoff_time - 1, a,
                                [status |-> "normal", start_date |-> None, end_date |-> None,
                                 set_work_days |-> FALSE, work_days |-> 1],
                                users, ads, ad_seq, settlements, sessions).status = 400
        /\ LET r == extend_advertisements(cu, cutoff_time - 1, {a, b}, 1, users, ads, ad_seq,
                                          settlements, sessions)
           IN /\ r.ads[a] = ads[a]
              /\ r.ads[b].end_date = ads[b].end_date + 1
              /\ Len(r.settlements) = Len(settlements) + 1
              /\ r.settlements[Len(r.settlements)].ad_id = b

\* ---------------------------------------------------------------------- C30
\* C30: a successful create_advertisement commits exactly one new
\* advertisement, of status pending, and exactly one new settlement, of type
\* order, with ad_id the new advertisement, advertiser_user_id the owner and
\* total_days = work_days = (end_date - start_date) + 1; a failing call
\* commits neither.
C30_CreateWithOrder ==
    \A cu \in Callers, now \in Times, req \in AdvertisementCreateInputs :
        LET r == create_advertisement(cu, now, req, users, ads, ad_seq, settlements, sessions)
            new == r.ad_seq
            last == Len(settlements) + 1
            days == (req.end_date - req.start_date) + 1
        IN IF r.status = 200
           THEN /\ new \notin DOMAIN ads
                /\ DOMAIN r.ads = (DOMAIN ads) \cup {new}
                /\ \A a \in DOMAIN ads : r.ads[a] = ads[a]
                /\ r.ads[new].status = "pending"
                /\ r.ads[new].user_id = req.user_id
                /\ r.ads[new].work_days = days
                /\ Len(r.settlements) = last
                /\ \A k \in DOMAIN settlements : r.settlements[k] = settlements[k]
                /\ r.settlements[last].settlement_type = "order"
                /\ r.settlements[last].ad_id = new
                /\ r.settlements[last].advertiser_user_id = req.user_id
                /\ r.settlements[last].total_days = days
           ELSE r.ads = ads /\ r.ad_seq = ad_seq /\ r.settlements = settlements

\* an advertisement and the settlement of its extension are stored: a caller's
\* create succeeds and logs an order whose settlement_id is not the new ad_id,
\* and its create for another owner fails
C30_Witness ==
    \E cu \in sessions, req \in AdvertisementCreateInputs, bad \in AdvertisementCreateInputs :
        /\ DOMAIN ads # {}
        /\ Len(settlements) > ad_seq
        /\ create_advertisement(cu, cutoff_time - 1, req, users, ads, ad_seq, settlements,
                                sessions).status = 200
        /\ create_advertisement(cu, cutoff_time - 1, bad, users, ads, ad_seq, settlements,
                                sessions).status = 403

====
